---- MODULE Spec2Model ----
(***************************************************************************)
(* Commit-reveal giveaway of yayguru/randomgiveaw.                         *)
(*                                                                         *)
(* Two entry points run the protocol:                                      *)
(*   runGiveaway  - the React component's handler (GiveawayForm.tsx)       *)
(*   selectWinner - the Waku service function, with verifyResult           *)
(* One run is modelled as one process (pc) with the transport's callbacks  *)
(* as separate actions that interleave at the run's await points.          *)
(*                                                                         *)
(* Strings are sequences of tokens.  A token is either a character         *)
(* [ch |-> code, pre |-> <<>>] or the hex rendering of a SHA-256 digest,   *)
(* [ch |-> -1, pre |-> preimage]: the digest is identified by its          *)
(* preimage, i.e. SHA-256 is taken to be collision-free.                   *)
(***************************************************************************)
EXTENDS Integers, Sequences, FiniteSets, TLC

\* ------------------------------------------------------------------ bounds
\* Number of inbound transport messages delivered to callbacks in one run.
MaxDeliveries == 3

\* ----------------------------------------------------------------- strings
Chr(c) == [ch |-> c, pre |-> <<>>]
Str(codes) == [i \in 1..Len(codes) |-> Chr(codes[i])]

IsDigest(t) == t.ch = -1

\* Lexicographic order of two strings by code unit, as Array.prototype.sort
\* compares strings when no comparator is given.
RECURSIVE StrLess(_, _)
StrLess(a, b) ==
    IF Len(a) = 0 THEN Len(b) > 0
    ELSE IF Len(b) = 0 THEN FALSE
    ELSE IF a[1].ch # b[1].ch THEN a[1].ch < b[1].ch
    ELSE StrLess(Tail(a), Tail(b))

RECURSIVE Insert(_, _)
Insert(s, sorted) ==
    IF Len(sorted) = 0 THEN <<s>>
    ELSE IF StrLess(s, sorted[1]) THEN <<s>> \o sorted
    ELSE <<sorted[1]>> \o Insert(s, Tail(sorted))

\* Array.prototype.sort() on an array of strings.
RECURSIVE Sort(_)
Sort(strs) ==
    IF Len(strs) = 0 THEN <<>>
    ELSE Insert(strs[1], Sort(Tail(strs)))

\* Array.prototype.join(sep)
RECURSIVE Join(_, _)
Join(strs, sep) ==
    IF Len(strs) = 0 THEN <<>>
    ELSE IF Len(strs) = 1 THEN strs[1]
    ELSE strs[1] \o sep \o Join(Tail(strs), sep)

Pipe == Str(<<124>>)

\* -------------------------------------------------------------------- hash
\* The range of the digest's leading word in the model.  The code reads the
\* first 8 hex digits (32 bits); the model keeps a 16-bit word.
WordMod == 65536

\* A deterministic checksum of the preimage stands for the leading word of
\* its SHA-256 digest.
RECURSIVE DigestWordTo(_, _)
DigestWordTo(pre, n) ==
    IF n = 0 THEN 58288
    ELSE LET t == pre[n]
             v == IF IsDigest(t) THEN DigestWordTo(t.pre, Len(t.pre)) + 1 ELSE t.ch
         IN  (31 * DigestWordTo(pre, n - 1) + 7 * v + n) % WordMod

DigestWord(pre) == DigestWordTo(pre, Len(pre))

\* SHA-256 of a string, rendered as lowercase hex: a one-token string.
Sha256Hex(data) == <<[ch |-> -1, pre |-> data]>>

\* parseInt(hash.slice(0, 8), 16)
ParseLeadingWord(hash) ==
    IF Len(hash) = 1 /\ IsDigest(hash[1]) THEN DigestWord(hash[1].pre) ELSE 0

\* The JavaScript value undefined: participants[i] for an index that is not
\* in the array (participants[NaN]), a field a parsed payload does not have.
Undefined == <<[ch |-> -2, pre |-> <<>>]>>

\* new TextEncoder().encode(secret): undefined encodes as the empty string.
Encode(secret) == IF secret = Undefined THEN <<>> ELSE secret

generateCommitment(secret) == Sha256Hex(Encode(secret))

hashSecret(secret) == Sha256Hex(Encode(secret))

hashParticipants(participants, seed) ==
    Sha256Hex(Join(participants, Pipe) \o Pipe \o seed)

\* JSON.stringify(commits): each entry's id and commitment, entries
\* separated by ','.
RECURSIVE StringifyCommits(_)
StringifyCommits(commits) ==
    IF Len(commits) = 0 THEN <<>>
    ELSE commits[1].address \o Str(<<58>>) \o commits[1].commitment
         \o (IF Len(commits) = 1 THEN <<>>
             ELSE Str(<<44>>) \o StringifyCommits(Tail(commits)))

\* JSON.stringify(reveals): each entry's id and secret.
RECURSIVE StringifyReveals(_)
StringifyReveals(revs) ==
    IF Len(revs) = 0 THEN <<>>
    ELSE revs[1].address \o Str(<<58>>) \o revs[1].secret
         \o (IF Len(revs) = 1 THEN <<>>
             ELSE Str(<<44>>) \o StringifyReveals(Tail(revs)))

\* Date.now().toString() at the time the verification hash is generated.
Timestamp == Str(<<48>>)

\* Array.prototype.join renders an undefined element as the empty string.
JoinItem(x) == IF x = Undefined THEN <<>> ELSE x

\* [participants.join('|'), winner, seed, organizer, JSON.stringify(commits),
\*  JSON.stringify(reveals), Date.now().toString()].join('::'), hashed.
Sep == Str(<<58, 58>>)

generateVerificationHash(participants, winnerId, seed, organizer, commits, revs) ==
    Sha256Hex(Join(participants, Pipe) \o Sep \o JoinItem(winnerId) \o Sep \o seed \o Sep
              \o organizer \o Sep \o StringifyCommits(commits) \o Sep
              \o StringifyReveals(revs) \o Sep \o Timestamp)

\* ------------------------------------------------------------- selection
\* x % participants.length; -1 stands for NaN (length 0).
Modulo(x, n) == IF n = 0 THEN -1 ELSE x % n

ElementAt(arr, i) == IF i >= 0 /\ i < Len(arr) THEN arr[i + 1] ELSE Undefined

\* runGiveaway: parseInt(finalHash.slice(0, 8), 16) % participantList.length
RG_winnerIndex(participantList, finalHash) ==
    Modulo(ParseLeadingWord(finalHash), Len(participantList))

\* Mutant: the index is taken from the seed itself, not from the participants hash.
SW_winnerIndex_FromSeed(participants, finalSeed) ==
    Modulo(ParseLeadingWord(finalSeed), Len(participants))

\* selectWinner: parseInt(participantsHash.slice(0, 8), 16) % participants.length
SW_winnerIndex(participants, finalSeed) ==
    Modulo(ParseLeadingWord(hashParticipants(participants, finalSeed)), Len(participants))

\* Mutant: a result that carries no verificationHash is rejected.
verifyResult_NeedsHash(res, organizerAddress) ==
    LET participantsHash == hashParticipants(res.participants, res.randomSeed)
        expectedIndex == Modulo(ParseLeadingWord(participantsHash), Len(res.participants))
        expectedWinner == ElementAt(res.participants, expectedIndex)
    IN  expectedWinner = res.winner /\ Len(res.verificationHash) > 0

\* verifyResult(result, organizerAddress)
verifyResult(res, organizerAddress) ==
    LET participantsHash == hashParticipants(res.participants, res.randomSeed)
        expectedIndex == Modulo(ParseLeadingWord(participantsHash), Len(res.participants))
        expectedWinner == ElementAt(res.participants, expectedIndex)
    IN  expectedWinner = res.winner

\* ---------------------------------------------------------- verification
Secrets(revs) == [i \in 1..Len(revs) |-> revs[i].secret]

\* Mutant: the lookup compares the sender only, not the hash.
RG_matchingCommit_AddressOnly(commitments, reveal) ==
    \E i \in 1..Len(commitments) : commitments[i].address = reveal.address

\* runGiveaway: commitments.find(c => c.address === reveal.address &&
\*                                    c.commitment === expectedCommitment)
RG_matchingCommit(commitments, reveal) ==
    \E i \in 1..Len(commitments) :
        /\ commitments[i].address = reveal.address
        /\ commitments[i].commitment = generateCommitment(reveal.secret)

\* Mutant: the last commit of the sender is taken, not the first.
SW_findCommit_Last(commits, reveal) ==
    LET hits == {i \in 1..Len(commits) : commits[i].address = reveal.address}
    IN  IF hits = {} THEN 0 ELSE CHOOSE i \in hits : \A j \in hits : i >= j

\* selectWinner/verifyReveals: commits.find(c => c.participantId === reveal.participantId);
\* 0 when there is none, else the index of the first one.
SW_findCommit(commits, reveal) ==
    LET hits == {i \in 1..Len(commits) : commits[i].address = reveal.address}
    IN  IF hits = {} THEN 0 ELSE CHOOSE i \in hits : \A j \in hits : i <= j

\* Mutant: only the first valid reveal's secret is used.
RG_combinedEntropy_FirstOnly(validReveals) ==
    Join(Sort(Secrets(SubSeq(validReveals, 1, 1))), <<>>)

\* runGiveaway: validReveals.map(r => r.secret).sort().join('')
RG_combinedEntropy(validReveals) == Join(Sort(Secrets(validReveals)), <<>>)

\* selectWinner: validReveals.map(r => r.secret).join('|')
SW_combinedEntropy(validReveals) == Join(Secrets(validReveals), Pipe)

\* participants.split('\n').map(p => p.trim()).filter(p => p.length > 0)
RECURSIVE TrimLeft(_)
TrimLeft(s) == IF Len(s) > 0 /\ s[1].ch = 32 THEN TrimLeft(Tail(s)) ELSE s

RECURSIVE TrimRightTo(_, _)
TrimRightTo(s, n) ==
    IF n > 0 /\ s[n].ch = 32 THEN TrimRightTo(s, n - 1) ELSE SubSeq(s, 1, n)

TrimRight(s) == TrimRightTo(s, Len(s))

Trim(s) == TrimRight(TrimLeft(s))

RECURSIVE ParseLines(_)
ParseLines(lines) ==
    IF Len(lines) = 0 THEN <<>>
    ELSE (IF Len(Trim(lines[1])) > 0 THEN <<Trim(lines[1])>> ELSE <<>>)
         \o ParseLines(Tail(lines))

\* participants.trim() of the text area whose lines are `lines`
IsBlank(lines) == \A i \in 1..Len(lines) : Len(Trim(lines[i])) = 0

\* ------------------------------------------------------------ environment
\* The connected wallet's address (runGiveaway) / organizerAddress (selectWinner).
address == Str(<<79>>)

\* crypto.randomUUID() / generateSecret(): the local secret of the run.
LocalSecret == Str(<<115>>)

SenderB == Str(<<66>>)
SecretX == Str(<<120>>)
SecretY == Str(<<121>>)

Commit(a, s) == [kind |-> "commit", address |-> a, body |-> hashSecret(s)]
Reveal(a, s) == [kind |-> "reveal", address |-> a, body |-> s]

\* Payloads the transport can deliver: commitments and reveals of a remote
\* sender (of two secrets), the local node's own messages echoed back, a
\* commitment and a reveal that carry the local id with another secret, and
\* a payload that is not JSON.
Garbage == [kind |-> "garbage", address |-> <<>>, body |-> <<>>]

\* The payload '{}': it parses, and every field read from it is undefined.
Malformed == [kind |-> "object", address |-> Undefined, body |-> Undefined]

InboundCommits ==
    { Commit(SenderB, SecretX), Commit(SenderB, SecretY),
      Commit(address, LocalSecret), Commit(address, SecretX) }

InboundReveals ==
    { Reveal(SenderB, SecretX), Reveal(SenderB, SecretY),
      Reveal(address, LocalSecret), Reveal(address, SecretX) }

\* The text area's lines (runGiveaway).
TextInputs ==
    { <<Str(<<>>)>>,
      <<Str(<<32>>), Str(<<>>)>>,
      <<Str(<<65>>), Str(<<32>>), Str(<<66, 32>>)>> }

\* The participants argument (selectWinner).
ArrayInputs ==
    { <<>>,
      <<Str(<<65>>), Str(<<66>>), Str(<<67>>)>> }

\* ------------------------------------------------------------------ state
VARIABLES
    fn,            \* "runGiveaway" or "selectWinner": the entry point of this run
    input,         \* participants: text-area lines / array argument
    pc,            \* the run's position (the await it is suspended at)
    phase,         \* runGiveaway: React state `phase`
    running,       \* runGiveaway: React state `running`
    status,        \* runGiveaway: React state `status` (the kind of message)
    commitments,   \* commitments / commits array
    reveals,       \* reveals array
    commitSub,     \* the commit subscription's callback is registered
    revealSub,     \* the reveal subscription's callback is registered
    subRejected,   \* selectWinner: a subscribe promise was rejected
    validReveals,  \* validReveals / valid
    vIdx,          \* position of the verification loop in reveals
    vCommit,       \* verifyReveals: the commit found for reveals[vIdx]
    entropy,       \* combinedEntropy
    finalSeed,     \* selectWinner: finalSeed
    winner,        \* selectWinner: winner
    vHash,         \* selectWinner: verificationHash
    results,       \* results handed to the caller (onResult calls / return value)
    error,         \* "none", "validation" or "transport": the surfaced failure
    delivered,     \* number of inbound messages delivered so far
    sent,          \* kinds of message handed to node.lightPush.send so far
    elapsed,       \* number of phase timers (commit, reveal) that have fired
    audit          \* verifyResult calls made on a published result

vars == <<fn, input, pc, phase, running, status, commitments, reveals, commitSub,
          revealSub, subRejected, validReveals, vIdx, vCommit, entropy, finalSeed,
          winner, vHash, results, error, delivered, sent, elapsed, audit>>

runVars == <<pc, phase, running, status, validReveals, vIdx, vCommit, entropy,
             finalSeed, winner, vHash, results, error>>

Init ==
    /\ fn \in {"runGiveaway", "selectWinner"}
    /\ input \in (IF fn = "runGiveaway" THEN TextInputs ELSE ArrayInputs)
    /\ pc = "idle"
    /\ phase = "idle"
    /\ running = FALSE
    /\ status = ""
    /\ commitments = <<>>
    /\ reveals = <<>>
    /\ commitSub = FALSE
    /\ revealSub = FALSE
    /\ subRejected = FALSE
    /\ validReveals = <<>>
    /\ vIdx = 0
    /\ vCommit = <<>>
    /\ entropy = <<>>
    /\ finalSeed = <<>>
    /\ winner = Undefined
    /\ vHash = <<>>
    /\ results = <<>>
    /\ error = "none"
    /\ delivered = 0
    /\ sent = {}
    /\ elapsed = 0
    /\ audit = <<>>

\* ------------------------------------------------------------ runGiveaway
participantList == ParseLines(input)

\* catch (error) { setStatus('Error...') } finally { setRunning(false); setPhase('idle') }
RG_Catch ==
    /\ status' = "error"
    /\ error' = "transport"
    /\ running' = FALSE
    /\ phase' = "idle"
    /\ pc' = "failed"

\* The participant checks at the head of runGiveaway, then setRunning(true).
RG_Start ==
    /\ fn = "runGiveaway" /\ pc = "idle"
    /\ IF IsBlank(input)
         THEN /\ status' = "addParticipants"
              /\ error' = "validation"
              /\ pc' = "returned"
              /\ UNCHANGED running
       ELSE IF Len(participantList) = 0
         THEN /\ status' = "noValidParticipants"
              /\ error' = "validation"
              /\ pc' = "returned"
              /\ UNCHANGED running
       ELSE /\ status' = "initializing"
            /\ running' = TRUE
            /\ pc' = "connect"
            /\ UNCHANGED error
    /\ UNCHANGED <<fn, input, sent, elapsed, phase, commitments, reveals, commitSub, revealSub,
                   subRejected, validReveals, vIdx, vCommit, entropy, finalSeed,
                   winner, vHash, results, delivered, audit>>

\* createLightNode, node.start, waitForRemotePeer; then setPhase('commit'), the
\* local secret and commitment, and the call of node.lightPush.send(commitMsg).
RG_Connect ==
    /\ fn = "runGiveaway" /\ pc = "connect"
    /\ \/ /\ phase' = "commit"
          /\ status' = "commitBroadcast"
          /\ pc' = "commitSend"
          /\ sent' = sent \cup {"commit"}
          /\ UNCHANGED <<running, error>>
       \/ RG_Catch /\ UNCHANGED sent
    /\ UNCHANGED <<fn, input, elapsed, commitments, reveals, commitSub, revealSub,
                   subRejected, validReveals, vIdx, vCommit, entropy, finalSeed,
                   winner, vHash, results, delivered, audit>>

\* node.lightPush.send(commitMsg) settles; commitments.push(commitMsg)
RG_CommitSend ==
    /\ fn = "runGiveaway" /\ pc = "commitSend"
    /\ \/ /\ commitments' = Append(commitments,
                [address |-> address, commitment |-> generateCommitment(LocalSecret)])
          /\ pc' = "commitSubscribe"
          /\ UNCHANGED <<phase, running, status, error>>
       \/ RG_Catch /\ UNCHANGED commitments
    /\ UNCHANGED <<fn, input, sent, elapsed, reveals, commitSub, revealSub,
                   subRejected, validReveals, vIdx, vCommit, entropy, finalSeed,
                   winner, vHash, results, delivered, audit>>

\* Mutant: the local reveal is sent as soon as the commit subscription is
\* open, without waiting for the commit window.
RG_CommitSubscribe_RevealAtOnce ==
    /\ fn = "runGiveaway" /\ pc = "commitSubscribe"
    /\ \/ /\ commitSub' = TRUE
          /\ phase' = "reveal"
          /\ status' = "revealBroadcast"
          /\ pc' = "revealSend"
          /\ sent' = sent \cup {"reveal"}
          /\ UNCHANGED <<running, error>>
       \/ RG_Catch /\ UNCHANGED <<commitSub, sent>>
    /\ UNCHANGED <<fn, input, elapsed, commitments, reveals, revealSub,
                   subRejected, validReveals, vIdx, vCommit, entropy, finalSeed,
                   winner, vHash, results, delivered, audit>>

\* await node.filter.subscribe([commitDecoder], callback)
RG_CommitSubscribe ==
    /\ fn = "runGiveaway" /\ pc = "commitSubscribe"
    /\ \/ /\ commitSub' = TRUE
          /\ pc' = "commitWait"
          /\ UNCHANGED <<phase, running, status, error>>
       \/ RG_Catch /\ UNCHANGED commitSub
    /\ UNCHANGED <<fn, input, sent, elapsed, commitments, reveals, revealSub,
                   subRejected, validReveals, vIdx, vCommit, entropy, finalSeed,
                   winner, vHash, results, delivered, audit>>

\* Mutant: the commit phase ends only once a second commitment has arrived.
RG_CommitWindowElapsed_Quorum ==
    /\ fn = "runGiveaway" /\ pc = "commitWait"
    /\ Len(commitments) >= 2
    /\ phase' = "reveal"
    /\ status' = "revealBroadcast"
    /\ pc' = "revealSend"
    /\ sent' = sent \cup {"reveal"}
    /\ elapsed' = elapsed + 1
    /\ UNCHANGED <<fn, input, running, error, commitments, reveals, commitSub,
                   revealSub, subRejected, validReveals, vIdx, vCommit, entropy,
                   finalSeed, winner, vHash, results, delivered, audit>>

\* setTimeout(resolve, COMMIT_WINDOW) fires; setPhase('reveal'); the call of
\* node.lightPush.send(revealMsg).
RG_CommitWindowElapsed ==
    /\ fn = "runGiveaway" /\ pc = "commitWait"
    /\ phase' = "reveal"
    /\ status' = "revealBroadcast"
    /\ pc' = "revealSend"
    /\ sent' = sent \cup {"reveal"}
    /\ elapsed' = elapsed + 1
    /\ UNCHANGED <<fn, input, running, error, commitments, reveals, commitSub,
                   revealSub, subRejected, validReveals, vIdx, vCommit, entropy,
                   finalSeed, winner, vHash, results, delivered, audit>>

\* node.lightPush.send(revealMsg) settles; reveals.push(revealMsg)
RG_RevealSend ==
    /\ fn = "runGiveaway" /\ pc = "revealSend"
    /\ \/ /\ reveals' = Append(reveals, [address |-> address, secret |-> LocalSecret])
          /\ pc' = "revealSubscribe"
          /\ UNCHANGED <<phase, running, status, error>>
       \/ RG_Catch /\ UNCHANGED reveals
    /\ UNCHANGED <<fn, input, sent, elapsed, commitments, commitSub, revealSub,
                   subRejected, validReveals, vIdx, vCommit, entropy, finalSeed,
                   winner, vHash, results, delivered, audit>>

\* await node.filter.subscribe([revealDecoder], callback)
RG_RevealSubscribe ==
    /\ fn = "runGiveaway" /\ pc = "revealSubscribe"
    /\ \/ /\ revealSub' = TRUE
          /\ pc' = "revealWait"
          /\ UNCHANGED <<phase, running, status, error>>
       \/ RG_Catch /\ UNCHANGED revealSub
    /\ UNCHANGED <<fn, input, sent, elapsed, commitments, reveals, commitSub,
                   subRejected, validReveals, vIdx, vCommit, entropy, finalSeed,
                   winner, vHash, results, delivered, audit>>

\* Mutant: when the reveal window ends the phase goes back to 'commit'.
RG_RevealWindowElapsed_Recommit ==
    /\ fn = "runGiveaway" /\ pc = "revealWait"
    /\ phase' = "commit"
    /\ status' = "verifying"
    /\ validReveals' = <<>>
    /\ elapsed' = elapsed + 1
    /\ IF Len(reveals) > 0
         THEN vIdx' = 1 /\ pc' = "verify" /\ UNCHANGED entropy
         ELSE vIdx' = 0 /\ pc' = "seedHash" /\ entropy' = RG_combinedEntropy(<<>>)
    /\ UNCHANGED <<fn, input, sent, running, error, commitments, reveals, commitSub,
                   revealSub, subRejected, vCommit, finalSeed, winner, vHash,
                   results, delivered, audit>>

\* setTimeout(resolve, REVEAL_WINDOW) fires; setPhase('complete'); the loop
\* over reveals starts and suspends at its first generateCommitment.
RG_RevealWindowElapsed ==
    /\ fn = "runGiveaway" /\ pc = "revealWait"
    /\ phase' = "complete"
    /\ status' = "verifying"
    /\ validReveals' = <<>>
    /\ elapsed' = elapsed + 1
    /\ IF Len(reveals) > 0
         THEN vIdx' = 1 /\ pc' = "verify" /\ UNCHANGED entropy
         ELSE vIdx' = 0 /\ pc' = "seedHash" /\ entropy' = RG_combinedEntropy(<<>>)
    /\ UNCHANGED <<fn, input, sent, running, error, commitments, reveals, commitSub,
                   revealSub, subRejected, vCommit, finalSeed, winner, vHash,
                   results, delivered, audit>>

\* One iteration of `for (const reveal of reveals)`, resumed after
\* generateCommitment(reveal.secret); after the last one, combinedEntropy.
RG_VerifyStep ==
    /\ fn = "runGiveaway" /\ pc = "verify"
    /\ LET reveal == reveals[vIdx]
           valid == IF RG_matchingCommit(commitments, reveal)
                      THEN Append(validReveals, reveal) ELSE validReveals
       IN  /\ validReveals' = valid
           /\ IF vIdx < Len(reveals)
                THEN vIdx' = vIdx + 1 /\ UNCHANGED <<pc, status, entropy>>
                ELSE /\ status' = "verified"
                     /\ entropy' = RG_combinedEntropy(valid)
                     /\ pc' = "seedHash"
                     /\ UNCHANGED vIdx
    /\ UNCHANGED <<fn, input, sent, elapsed, phase, running, error, commitments, reveals,
                   commitSub, revealSub, subRejected, vCommit, finalSeed, winner,
                   vHash, results, delivered, audit>>

\* runGiveaway: the GiveawayResult built from the participant list and finalHash.
RG_result(list, finalHash) ==
    [winner |-> ElementAt(list, RG_winnerIndex(list, finalHash)),
     timestamp |-> Timestamp,
     participants |-> list,
     randomSeed |-> finalHash,
     verificationHash |-> finalHash]

\* finalHash resolves; winner selection, the result, onResult(result).
RG_SelectWinner ==
    /\ fn = "runGiveaway" /\ pc = "seedHash"
    /\ LET finalHash == generateCommitment(entropy)
       IN  /\ finalSeed' = finalHash
           /\ winner' = RG_result(participantList, finalHash).winner
           /\ results' = Append(results, RG_result(participantList, finalHash))
    /\ status' = "winnerSelected"
    /\ pc' = "stopping"
    /\ UNCHANGED <<fn, input, sent, elapsed, phase, running, error, commitments, reveals,
                   commitSub, revealSub, subRejected, validReveals, vIdx, vCommit,
                   entropy, vHash, delivered, audit>>

\* await node.stop(); finally { setRunning(false); setPhase('idle') }
RG_NodeStop ==
    /\ fn = "runGiveaway" /\ pc = "stopping"
    /\ \/ /\ commitSub' = FALSE
          /\ revealSub' = FALSE
          /\ running' = FALSE
          /\ phase' = "idle"
          /\ pc' = "done"
          /\ UNCHANGED <<status, error>>
       \/ RG_Catch /\ UNCHANGED <<commitSub, revealSub>>
    /\ UNCHANGED <<fn, input, sent, elapsed, commitments, reveals, subRejected, validReveals,
                   vIdx, vCommit, entropy, finalSeed, winner, vHash, results,
                   delivered, audit>>

\* The commit subscription's callback: JSON.parse, then
\* if (data.address !== address) commitments.push(data).  A payload that does
\* not parse throws inside the callback and nothing is pushed.
RG_CommitCallback(msg) ==
    /\ fn = "runGiveaway" /\ commitSub
    /\ delivered < MaxDeliveries
    /\ delivered' = delivered + 1
    /\ IF msg.kind \in {"commit", "object"} /\ msg.address # address
         THEN commitments' = Append(commitments,
                  [address |-> msg.address, commitment |-> msg.body])
         ELSE UNCHANGED commitments
    /\ UNCHANGED <<fn, input, sent, elapsed, reveals, commitSub, revealSub, subRejected, audit>>
    /\ UNCHANGED runVars

\* The reveal subscription's callback: JSON.parse, then
\* if (data.address !== address) reveals.push(data).
RG_RevealCallback(msg) ==
    /\ fn = "runGiveaway" /\ revealSub
    /\ delivered < MaxDeliveries
    /\ delivered' = delivered + 1
    /\ IF msg.kind \in {"reveal", "object"} /\ msg.address # address
         THEN reveals' = Append(reveals, [address |-> msg.address, secret |-> msg.body])
         ELSE UNCHANGED reveals
    /\ UNCHANGED <<fn, input, sent, elapsed, commitments, commitSub, revealSub, subRejected, audit>>
    /\ UNCHANGED runVars

\* ----------------------------------------------------------- selectWinner
\* A rejected transport promise rejects the promise selectWinner returned.
SW_Throw ==
    /\ error' = "transport"
    /\ pc' = "failed"

\* verifyReveals: the first index >= from whose reveal has a commit with the
\* same participantId (`if (!commit) continue` skips the others without
\* suspending); 0 when the loop runs off the end of reveals.
SW_nextWithCommit(commits, revs, from) ==
    LET hits == {i \in from..Len(revs) : SW_findCommit(commits, revs[i]) # 0}
    IN  IF hits = {} THEN 0 ELSE CHOOSE i \in hits : \A j \in hits : i <= j

\* createLightNode, node.start, waitForRemotePeer; the local secret.
SW_Connect ==
    /\ fn = "selectWinner" /\ pc = "idle"
    /\ \/ pc' = "commitSend" /\ sent' = sent \cup {"commit"} /\ UNCHANGED error
       \/ SW_Throw /\ UNCHANGED sent
    /\ UNCHANGED <<fn, input, elapsed, phase, running, status, commitments, reveals,
                   commitSub, revealSub, subRejected, validReveals, vIdx, vCommit,
                   entropy, finalSeed, winner, vHash, results, delivered, audit>>

\* node.lightPush.send(commitMessage) settles; commits.push(commitMessage);
\* node.filter.subscribe is called and the 30 s timer set.
SW_CommitSend ==
    /\ fn = "selectWinner" /\ pc = "commitSend"
    /\ \/ /\ commitments' = Append(commitments,
                [address |-> address, commitment |-> hashSecret(LocalSecret)])
          /\ pc' = "commitSubscribe"
          /\ UNCHANGED error
       \/ SW_Throw /\ UNCHANGED commitments
    /\ UNCHANGED <<fn, input, sent, elapsed, phase, running, status, reveals,
                   commitSub, revealSub, subRejected, validReveals, vIdx, vCommit,
                   entropy, finalSeed, winner, vHash, results, delivered, audit>>

\* The promise returned by node.filter.subscribe settles.
SW_CommitSubscribe ==
    /\ fn = "selectWinner" /\ pc = "commitSubscribe"
    /\ \/ commitSub' = TRUE /\ UNCHANGED subRejected
       \/ subRejected' = TRUE /\ UNCHANGED commitSub
    /\ pc' = "commitWait"
    /\ UNCHANGED <<fn, input, sent, elapsed, phase, running, status, commitments, reveals,
                   revealSub, validReveals, vIdx, vCommit, error,
                   entropy, finalSeed, winner, vHash, results, delivered, audit>>

\* The 30 s timer fires: unsubscribe.then(() => resolve()) resolves the wait
\* once the subscribe promise is fulfilled; the subscription itself stays.
SW_CommitDeadline ==
    /\ fn = "selectWinner" /\ pc = "commitWait"
    /\ ~subRejected
    /\ pc' = "revealSend"
    /\ sent' = sent \cup {"reveal"}
    /\ elapsed' = elapsed + 1
    /\ UNCHANGED <<fn, input, phase, running, status, commitments, reveals,
                   commitSub, revealSub, subRejected, validReveals, vIdx, vCommit,
                   error, entropy, finalSeed, winner, vHash, results, delivered,
                   audit>>

\* node.lightPush.send(revealMessage) settles; reveals.push(revealMessage);
\* the second node.filter.subscribe is called and its timer set.
SW_RevealSend ==
    /\ fn = "selectWinner" /\ pc = "revealSend"
    /\ \/ /\ reveals' = Append(reveals, [address |-> address, secret |-> LocalSecret])
          /\ pc' = "revealSubscribe"
          /\ UNCHANGED error
       \/ SW_Throw /\ UNCHANGED reveals
    /\ UNCHANGED <<fn, input, sent, elapsed, phase, running, status, commitments,
                   commitSub, revealSub, subRejected, validReveals, vIdx, vCommit,
                   entropy, finalSeed, winner, vHash, results, delivered, audit>>

SW_RevealSubscribe ==
    /\ fn = "selectWinner" /\ pc = "revealSubscribe"
    /\ \/ revealSub' = TRUE /\ UNCHANGED subRejected
       \/ subRejected' = TRUE /\ UNCHANGED revealSub
    /\ pc' = "revealWait"
    /\ UNCHANGED <<fn, input, sent, elapsed, phase, running, status, commitments, reveals,
                   commitSub, validReveals, vIdx, vCommit, error,
                   entropy, finalSeed, winner, vHash, results, delivered, audit>>

\* verifyReveals from index `from`: suspend at the next reveal that has a
\* commit, or return and build combinedEntropy.
SW_Advance(valid, from) ==
    LET next == SW_nextWithCommit(commitments, reveals, from)
    IN  IF next # 0
          THEN /\ vIdx' = next
               /\ vCommit' = commitments[SW_findCommit(commitments, reveals[next])].commitment
               /\ pc' = "verify"
               /\ UNCHANGED entropy
          ELSE /\ vIdx' = 0
               /\ vCommit' = <<>>
               /\ entropy' = SW_combinedEntropy(valid)
               /\ pc' = "seedHash"

\* The reveal timer fires and verifyReveals(commits, reveals) starts.
SW_RevealDeadline ==
    /\ fn = "selectWinner" /\ pc = "revealWait"
    /\ ~subRejected
    /\ validReveals' = <<>>
    /\ elapsed' = elapsed + 1
    /\ SW_Advance(<<>>, 1)
    /\ UNCHANGED <<fn, input, sent, phase, running, status, commitments, reveals,
                   commitSub, revealSub, subRejected, error, finalSeed, winner,
                   vHash, results, delivered, audit>>

\* verifyReveals resumes after hashSecret(reveal.secret).
SW_VerifyStep ==
    /\ fn = "selectWinner" /\ pc = "verify"
    /\ LET reveal == reveals[vIdx]
           valid == IF hashSecret(reveal.secret) = vCommit
                      THEN Append(validReveals, reveal) ELSE validReveals
       IN  /\ validReveals' = valid
           /\ SW_Advance(valid, vIdx + 1)
    /\ UNCHANGED <<fn, input, sent, elapsed, phase, running, status, commitments, reveals,
                   commitSub, revealSub, subRejected, error, finalSeed, winner,
                   vHash, results, delivered, audit>>

\* finalSeed = await hashSecret(combinedEntropy)
SW_SeedHashed ==
    /\ fn = "selectWinner" /\ pc = "seedHash"
    /\ finalSeed' = hashSecret(entropy)
    /\ pc' = "participantsHash"
    /\ UNCHANGED <<fn, input, sent, elapsed, phase, running, status, commitments, reveals,
                   commitSub, revealSub, subRejected, validReveals, vIdx, vCommit,
                   error, entropy, winner, vHash, results, delivered, audit>>

\* selectWinner: winner = participants[winnerIndex]
SW_winner(participants, seed) ==
    ElementAt(participants, SW_winnerIndex(participants, seed))

\* selectWinner: the verificationHash of the run for a participant list.
SW_verificationHash(participants, seed, commits, valid) ==
    generateVerificationHash(participants, SW_winner(participants, seed), seed,
                             address, commits, valid)

\* participantsHash resolves: winnerIndex, winner; generateVerificationHash
\* builds its data from commits as they are now.
SW_ParticipantsHashed ==
    /\ fn = "selectWinner" /\ pc = "participantsHash"
    /\ winner' = SW_winner(input, finalSeed)
    /\ vHash' = SW_verificationHash(input, finalSeed, commitments, validReveals)
    /\ pc' = "verificationHash"
    /\ UNCHANGED <<fn, input, sent, elapsed, phase, running, status, commitments, reveals,
                   commitSub, revealSub, subRejected, validReveals, vIdx, vCommit,
                   error, entropy, finalSeed, results, delivered, audit>>

\* verificationHash resolves; node.stop() is called.
SW_VerificationHashed ==
    /\ fn = "selectWinner" /\ pc = "verificationHash"
    /\ pc' = "stopping"
    /\ UNCHANGED <<fn, input, sent, elapsed, phase, running, status, commitments, reveals,
                   commitSub, revealSub, subRejected, validReveals, vIdx, vCommit,
                   error, entropy, finalSeed, winner, vHash, results, delivered,
                   audit>>

\* await node.stop(); return { winner, timestamp, participants, randomSeed,
\* verificationHash }
SW_NodeStop ==
    /\ fn = "selectWinner" /\ pc = "stopping"
    /\ \/ /\ commitSub' = FALSE
          /\ revealSub' = FALSE
          /\ results' = Append(results,
                 [winner |-> winner,
                  timestamp |-> Timestamp,
                  participants |-> input,
                  randomSeed |-> finalSeed,
                  verificationHash |-> vHash])
          /\ pc' = "done"
          /\ UNCHANGED error
       \/ SW_Throw /\ UNCHANGED <<commitSub, revealSub, results>>
    /\ UNCHANGED <<fn, input, sent, elapsed, phase, running, status, commitments, reveals,
                   subRejected, validReveals, vIdx, vCommit, entropy, finalSeed,
                   winner, vHash, delivered, audit>>

\* The first subscription's callback: if (data.commitment && !data.secret)
\* commits.push(data); a payload that does not parse is caught and logged.
SW_CommitCallback(msg) ==
    /\ fn = "selectWinner" /\ commitSub
    /\ delivered < MaxDeliveries
    /\ delivered' = delivered + 1
    /\ IF msg.kind = "commit"
         THEN commitments' = Append(commitments,
                  [address |-> msg.address, commitment |-> msg.body])
         ELSE UNCHANGED commitments
    /\ UNCHANGED <<fn, input, sent, elapsed, reveals, commitSub, revealSub, subRejected, audit>>
    /\ UNCHANGED runVars

\* The second subscription's callback: if (data.secret) reveals.push(data).
SW_RevealCallback(msg) ==
    /\ fn = "selectWinner" /\ revealSub
    /\ delivered < MaxDeliveries
    /\ delivered' = delivered + 1
    /\ IF msg.kind = "reveal"
         THEN reveals' = Append(reveals, [address |-> msg.address, secret |-> msg.body])
         ELSE UNCHANGED reveals
    /\ UNCHANGED <<fn, input, sent, elapsed, commitments, commitSub, revealSub, subRejected, audit>>
    /\ UNCHANGED runVars

\* ------------------------------------------------------------ verifyResult
\* Values a published result's winner may be replaced by before it is verified.
Names == {Str(<<65>>), Str(<<66>>), Undefined}

PublishedWinners == {results[k].winner : k \in 1..Len(results)}

\* After the run, a third party calls verifyResult on the published result,
\* as published (w is its winner) or with the winner replaced by w.
VerifyResultCall(w) ==
    /\ pc \in {"done", "failed"}
    /\ Len(results) > 0 /\ Len(audit) = 0
    /\ LET res == [results[1] EXCEPT !.winner = w]
       IN  audit' = <<[res |-> res, verdict |-> verifyResult(res, address)]>>
    /\ UNCHANGED <<fn, input, sent, elapsed, commitments, reveals, commitSub, revealSub,
                   subRejected, delivered>>
    /\ UNCHANGED runVars

\* ---------------------------------------------------------- specification
RunStep ==
    \/ RG_Start \/ RG_Connect \/ RG_CommitSend \/ RG_CommitSubscribe
    \/ RG_CommitWindowElapsed \/ RG_RevealSend \/ RG_RevealSubscribe
    \/ RG_RevealWindowElapsed \/ RG_VerifyStep \/ RG_SelectWinner \/ RG_NodeStop
    \/ SW_Connect \/ SW_CommitSend \/ SW_CommitSubscribe \/ SW_CommitDeadline
    \/ SW_RevealSend \/ SW_RevealSubscribe \/ SW_RevealDeadline \/ SW_VerifyStep
    \/ SW_SeedHashed \/ SW_ParticipantsHashed \/ SW_VerificationHashed
    \/ SW_NodeStop

\* Payloads that do not parse into a commitment or a reveal.
Unparsed == {Garbage, Malformed}

Deliver ==
    \/ \E msg \in InboundCommits \cup Unparsed : RG_CommitCallback(msg)
    \/ \E msg \in InboundReveals \cup Unparsed : RG_RevealCallback(msg)
    \/ \E msg \in InboundCommits \cup InboundReveals \cup Unparsed : SW_CommitCallback(msg)
    \/ \E msg \in InboundCommits \cup InboundReveals \cup Unparsed : SW_RevealCallback(msg)

Next ==
    \/ RunStep
    \/ Deliver
    \/ \E w \in Names \cup PublishedWinners : VerifyResultCall(w)

Spec == Init /\ [][Next]_vars

\* Timers fire and pending promises settle: every step of the run itself is
\* taken once it is enabled.  Message delivery is up to the network.
FairSpec == Spec /\ WF_vars(RunStep)

\* ------------------------------------------------------------------ claims
InCommitPhase == pc \in {"commitSend", "commitSubscribe", "commitWait"}

InRevealPhase == pc \in {"revealSend", "revealSubscribe", "revealWait"}

Verifying == pc = "verify"

Completed == pc = "done" /\ Len(results) = 1

\* The participant list the selection step works on.
Participants == IF fn = "runGiveaway" THEN participantList ELSE input

\* C1: a commitment is added to the commitment collection only while the run
\* is in the commit phase; one delivered during the reveal phase or during
\* verification is dropped.
C1_CommitmentsOnlyInCommitPhase ==
    [][Len(commitments') > Len(commitments) => InCommitPhase]_vars

\* C2: the commitment collection never holds two commitments with the same
\* sender id.
C2_OneCommitmentPerSender ==
    \A i, j \in 1..Len(commitments) :
        commitments[i].address = commitments[j].address => i = j

\* C3: the first commitment recorded for a sender stands: every valid reveal's
\* secret hashes to the first commitment recorded for its sender, so a reveal
\* that only matches a later, different commitment of that sender is not valid.
C3_FirstCommitmentStands ==
    \A k \in 1..Len(validReveals) :
        LET first == SW_findCommit(commitments, validReveals[k])
        IN  /\ first # 0
            /\ commitments[first].commitment = hashSecret(validReveals[k].secret)

\* C4: every valid reveal has a recorded commitment with the same sender id
\* whose hash is the hash of the reveal's secret.
C4_ValidRevealsAreCommitted ==
    \A k \in 1..Len(validReveals) :
        \E i \in 1..Len(commitments) :
            /\ commitments[i].address = validReveals[k].address
            /\ commitments[i].commitment = Sha256Hex(validReveals[k].secret)

\* A finished run in which a remote sender revealed without any commitment
\* and another remote reveal does not hash to its sender's commitment.
C4_Witness ==
    /\ Completed
    /\ Len(validReveals) >= 1
    /\ \E r \in 1..Len(reveals) :
           \A i \in 1..Len(commitments) : commitments[i].address # reveals[r].address
    /\ \E r \in 1..Len(reveals) :
           /\ \E i \in 1..Len(commitments) : commitments[i].address = reveals[r].address
           /\ \A i \in 1..Len(commitments) :
                  commitments[i].address = reveals[r].address
                      => commitments[i].commitment # Sha256Hex(reveals[r].secret)

\* Arrival orders of the inbound reveals: the local reveal is recorded first,
\* the others in any order.
ArrivalOrders(n) ==
    {f \in [1..n -> 1..n] :
        /\ n > 0 => f[1] = 1
        /\ \A i, j \in 1..n : f[i] = f[j] => i = j}

SeedOf(valid) ==
    IF fn = "runGiveaway" THEN generateCommitment(RG_combinedEntropy(valid))
    ELSE hashSecret(SW_combinedEntropy(valid))

\* C5: the randomSeed of a result is the one every other arrival order of the
\* same valid reveals gives.
C5_SeedIndependentOfArrivalOrder ==
    Len(results) > 0 =>
        \A f \in ArrivalOrders(Len(validReveals)) :
            SeedOf([i \in 1..Len(validReveals) |-> validReveals[f[i]]])
                = results[1].randomSeed

\* C6: verifyResult accepts a result of selectWinner as returned, and rejects
\* it once its winner has been replaced by a different value.
C6_VerifyResultAcceptsExactlyTheWinner ==
    fn = "selectWinner" =>
        \A k \in 1..Len(audit) :
            audit[k].verdict <=> (audit[k].res.winner = results[1].winner)

\* verifyResult has rejected a selectWinner result whose winner was replaced
\* by another participant.
C6_Witness ==
    /\ fn = "selectWinner" /\ Len(audit) = 1
    /\ Len(input) > 1
    /\ audit[1].res.winner # results[1].winner
    /\ audit[1].res.winner \in {input[i] : i \in 1..Len(input)}
    /\ ~audit[1].verdict

\* C7: verifyResult accepts every result runGiveaway delivers through onResult.
C7_VerifyResultAcceptsRunGiveaway ==
    fn = "runGiveaway" =>
        \A k \in 1..Len(audit) :
            audit[k].res = results[1] => audit[k].verdict

\* C8: the winner of every produced result is an element of its participants.
C8_WinnerIsParticipant ==
    \A k \in 1..Len(results) :
        \E i \in 1..Len(results[k].participants) :
            results[k].participants[i] = results[k].winner

\* C9: with an empty participant list no result is produced: runGiveaway
\* starts no protocol phase, selectWinner ends with an error.
C9_EmptyParticipantsFailFast ==
    Len(Participants) = 0 =>
        /\ Len(results) = 0
        /\ fn = "runGiveaway" => pc \in {"idle", "returned"} /\ phase = "idle" /\ ~running
        /\ (fn = "selectWinner" /\ pc \in {"done", "failed"}) => error # "none"

TransportFailed == error = "transport" \/ subRejected

\* C10: a run whose transport operations succeed reaches Complete with a
\* result, whatever was delivered.
C10_RunCompletes ==
    <>(TransportFailed \/ pc = "returned" \/ Completed)

\* A finished run with a result in which a remote sender committed and never
\* revealed.
C10_Witness ==
    /\ Completed /\ ~TransportFailed
    /\ \E i \in 1..Len(commitments) :
           /\ commitments[i].address # address
           /\ \A r \in 1..Len(reveals) : reveals[r].address # commitments[i].address

\* C11: after a transport operation has failed the run ends with the failure
\* surfaced to the caller and without a result.
C11_TransportFailureEndsRun ==
    TransportFailed ~> (pc = "failed" /\ error = "transport" /\ Len(results) = 0)

\* C12: a run of runGiveaway never both delivers a result and reports an
\* error, and a finished run has exactly one of the two.
C12_ResultOrErrorNotBoth ==
    fn = "runGiveaway" =>
        /\ ~(Len(results) > 0 /\ error # "none")
        /\ pc \in {"done", "failed", "returned"} => (Len(results) = 1) # (error # "none")

\* Participant lists a run could have been given instead.
OtherLists ==
    { <<Str(<<65>>), Str(<<66>>)>>,
      <<Str(<<66>>), Str(<<65>>)>>,
      <<Str(<<65>>), Str(<<66>>), Str(<<67>>)>> }

\* The verificationHash the same run (same messages, hence same seed) gives
\* for the participant list `list`.
VerificationHashFor(list) ==
    IF fn = "runGiveaway" THEN RG_result(list, finalSeed).verificationHash
    ELSE SW_verificationHash(list, finalSeed, commitments, validReveals)

\* C13: the verificationHash of a produced result differs from the one the
\* run produces for any other participant list.
C13_VerificationHashBindsParticipants ==
    \A k \in 1..Len(results) :
        \A list \in OtherLists :
            list # results[k].participants
                => VerificationHashFor(list) # results[k].verificationHash

\* runGiveaway: the verification loop over revs[i..], run without suspension
\* against the collections as given.
RECURSIVE RG_validFrom(_, _, _)
RG_validFrom(commits, revs, i) ==
    IF i > Len(revs) THEN <<>>
    ELSE (IF RG_matchingCommit(commits, revs[i]) THEN <<revs[i]>> ELSE <<>>)
         \o RG_validFrom(commits, revs, i + 1)

\* selectWinner: verifyReveals over revs[i..], run without suspension against
\* the collections as given.
RECURSIVE SW_validFrom(_, _, _)
SW_validFrom(commits, revs, i) ==
    IF i > Len(revs) THEN <<>>
    ELSE (IF /\ SW_findCommit(commits, revs[i]) # 0
             /\ commits[SW_findCommit(commits, revs[i])].commitment
                    = hashSecret(revs[i].secret)
            THEN <<revs[i]>> ELSE <<>>)
         \o SW_validFrom(commits, revs, i + 1)

\* The valid reveals the verification that is under way ends with if nothing
\* else is delivered: what it has collected, the iteration it is suspended
\* in, and the rest of the reveal collection as it stands.
PendingValid ==
    IF pc # "verify" THEN validReveals
    ELSE IF fn = "runGiveaway"
      THEN validReveals \o RG_validFrom(commitments, reveals, vIdx)
    ELSE validReveals
         \o (IF hashSecret(reveals[vIdx].secret) = vCommit
               THEN <<reveals[vIdx]>> ELSE <<>>)
         \o SW_validFrom(commitments, reveals, vIdx + 1)

\* C14: once the reveal window has ended, no step (in particular no message
\* delivered between two hashing steps of the verification) changes the
\* valid reveals the verification ends with.
C14_LateRevealsIgnored ==
    [][pc = "verify" => PendingValid' = PendingValid]_vars

\* C15: a reveal added to the reveal collection by a remote sender comes from
\* a sender that has a recorded commitment at that moment.
C15_RevealWithoutCommitmentDropped ==
    [][\A i \in (Len(reveals) + 1)..Len(reveals') :
          reveals'[i].address # address
              => \E j \in 1..Len(commitments) :
                    commitments[j].address = reveals'[i].address]_vars

\* C16: the reveal collection holds at most one reveal per sender.
C16_OneRevealPerSender ==
    \A i, j \in 1..Len(reveals) :
        reveals[i].address = reveals[j].address => i = j

\* The valid reveals of the run in which every message is delivered once:
\* a reveal equal to one of the first n - 1 is left out.
RECURSIVE OnceTo(_, _)
OnceTo(revs, n) ==
    IF n = 0 THEN <<>>
    ELSE OnceTo(revs, n - 1)
         \o (IF \E i \in 1..(n - 1) : revs[i] = revs[n] THEN <<>> ELSE <<revs[n]>>)

\* C17: the randomSeed of a result is the one obtained when every message
\* that was delivered twice is counted once.
C17_DuplicateDeliveryChangesNothing ==
    Len(results) > 0 =>
        results[1].randomSeed = SeedOf(OnceTo(validReveals, Len(validReveals)))

\* A run has ended: it completed, or it ended with a failure.
Terminal == pc \in {"done", "failed"}

\* C18: once a run has ended, no delivered message changes its commitment or
\* reveal collection.
C18_NothingMutatesAfterTerminal ==
    [][Terminal => UNCHANGED <<commitments, reveals>>]_vars

\* The forward steps of the phase: idle, commit, reveal, complete.
PhaseAdvances ==
    \/ phase = "idle" /\ phase' = "commit" /\ pc = "connect"
    \/ phase = "commit" /\ phase' = "reveal"
    \/ phase = "reveal" /\ phase' = "complete"

\* C19 as stated: the phase of runGiveaway changes only forward or, from
\* commit or reveal, to the error outcome; after complete it does not change.
C19_CompleteIsFinal ==
    [][(fn = "runGiveaway" /\ phase' # phase) =>
          \/ PhaseAdvances
          \/ phase \in {"commit", "reveal"} /\ phase' = "idle" /\ error' # "none"]_vars

\* C19, amended: the phase of runGiveaway changes only forward, one phase at
\* a time, or back to idle at the step that ends the run (after complete, or
\* on a failure in commit, reveal or complete).
C19_PhaseOrder ==
    [][(fn = "runGiveaway" /\ phase' # phase) =>
          \/ PhaseAdvances
          \/ /\ phase \in {"commit", "reveal", "complete"}
             /\ phase' = "idle"
             /\ pc' \in {"done", "failed"}
             /\ ~running']_vars

\* A run of runGiveaway that went through every phase, delivered its result
\* and was reset to idle.
C19_Witness ==
    /\ fn = "runGiveaway" /\ pc = "done" /\ phase = "idle"
    /\ Len(results) = 1 /\ elapsed = 2

\* The local commitment has been published and recorded.
LocalCommitmentRecorded ==
    \E i \in 1..Len(commitments) :
        commitments[i] = [address |-> address,
                          commitment |-> generateCommitment(LocalSecret)]

\* C20: the local reveal has been handed to the transport only if the commit
\* window has elapsed, the local commitment was published before, and the
\* run is no longer in the commit phase.
C20_RevealAfterCommitDeadline ==
    "reveal" \in sent =>
        /\ elapsed >= 1
        /\ "commit" \in sent
        /\ LocalCommitmentRecorded
        /\ ~InCommitPhase
        /\ phase # "commit"

\* The local reveal is being sent, right after the commit window elapsed,
\* with a remote commitment received during the window.
C20_Witness ==
    /\ "reveal" \in sent /\ pc = "revealSend" /\ elapsed = 1
    /\ Len(commitments) >= 2

\* C21: a payload that does not parse into a commitment or a reveal is
\* dropped: no entry with an undefined sender, commitment or secret is ever
\* in the commitment or the reveal collection.
C21_UnparsedPayloadDropped ==
    /\ \A i \in 1..Len(commitments) :
           commitments[i].address # Undefined /\ commitments[i].commitment # Undefined
    /\ \A i \in 1..Len(reveals) :
           reveals[i].address # Undefined /\ reveals[i].secret # Undefined

\* The string s occurs in the string e.
OccursIn(s, e) ==
    \E p \in 1..(Len(e) - Len(s) + 1) : SubSeq(e, p, p + Len(s) - 1) = s

\* The sender of reveal r has a commitment among commits, and every
\* commitment recorded for that sender is the hash of r's secret.
OnlyCommitmentMatches(commits, r) ==
    /\ \E j \in 1..Len(commits) : commits[j].address = r.address
    /\ \A j \in 1..Len(commits) :
           commits[j].address = r.address
               => commits[j].commitment = generateCommitment(r.secret)

\* C22: (1) when the reveal timer fires, every recorded reveal of a sender
\* whose only commitment is the hash of the revealed secret is among the
\* reveals the verification ends with; (2) nothing delivered during the
\* verification removes a reveal from them; (3) the entropy string built
\* when the verification ends holds the secret of every valid reveal; and
\* (4) randomSeed is the hash of that entropy string.
C22_HonestRevealCounts ==
    [][/\ (pc = "revealWait" /\ pc' \in {"verify", "seedHash"}) =>
              \A i \in 1..Len(reveals') :
                  OnlyCommitmentMatches(commitments', reveals'[i])
                      => \E k \in 1..Len(PendingValid') : PendingValid'[k] = reveals'[i]
       /\ pc = "verify" =>
              \A k \in 1..Len(PendingValid) :
                  \E m \in 1..Len(PendingValid') : PendingValid'[m] = PendingValid[k]
       /\ (pc # "seedHash" /\ pc' = "seedHash") =>
              \A k \in 1..Len(validReveals') :
                  OccursIn(validReveals'[k].secret, entropy')
       /\ Len(results') > Len(results) =>
              results'[1].randomSeed = SeedOf(validReveals)]_vars

\* A finished run in which a remote sender committed and revealed honestly
\* and its reveal was counted, while another message was delivered as well.
C22_Witness ==
    /\ Completed /\ delivered = MaxDeliveries
    /\ \E k \in 1..Len(validReveals) :
           /\ validReveals[k].address # address
           /\ OnlyCommitmentMatches(commitments, validReveals[k])
           /\ OccursIn(validReveals[k].secret, entropy)

\* C23: once the local commitment has been handed to the transport it is in
\* the commitment collection.
C23_CommitmentRecordedBeforePublished ==
    "commit" \in sent => LocalCommitmentRecorded

\* Values the fields verifyResult does not read may be replaced by.
AltTimestamps == {Timestamp, Str(<<49>>)}

AltHashes == {<<>>, Sha256Hex(<<>>), Sha256Hex(Str(<<49>>))}

AltOrganizers == {address, SenderB, Undefined}

\* C24: the verdict verifyResult gave for a result is the verdict it gives
\* for the same result with another timestamp, another verificationHash and
\* another organizerAddress.
C24_VerdictIgnoresHashAndTimestamp ==
    \A k \in 1..Len(audit) :
        \A t \in AltTimestamps, h \in AltHashes, o \in AltOrganizers :
            verifyResult([audit[k].res EXCEPT !.timestamp = t,
                                              !.verificationHash = h], o)
                = audit[k].verdict

\* verifyResult accepted a published result of selectWinner, whose
\* verificationHash is none of the replacement values.
C24_Witness ==
    /\ fn = "selectWinner" /\ Len(audit) = 1
    /\ audit[1].verdict
    /\ audit[1].res = results[1]
    /\ audit[1].res.verificationHash \notin AltHashes

\* The run has reached the selection step: the verification has ended.
SelectionReached == elapsed = 2 /\ pc # "verify"

\* C25: at the selection step the local reveal is a valid reveal, so the
\* entropy string is not empty and randomSeed is not the hash of the empty
\* string.
C25_LocalRevealAlwaysValid ==
    /\ SelectionReached =>
           /\ \E k \in 1..Len(validReveals) :
                  validReveals[k] = [address |-> address, secret |-> LocalSecret]
           /\ entropy # <<>>
    /\ \A k \in 1..Len(results) : results[k].randomSeed # SeedOf(<<>>)

\* A finished run of selectWinner in which a commitment carrying the local
\* id and another secret was recorded.
C25_Witness ==
    /\ fn = "selectWinner" /\ Completed
    /\ \E i \in 1..Len(commitments) :
           /\ commitments[i].address = address
           /\ commitments[i].commitment # hashSecret(LocalSecret)

====
